---------------------------- MODULE Spec2Model ----------------------------
(***************************************************************************)
(* Model of the V4 synchronous-message interaction                         *)
(* (pact_matching/src/models/v4/sync_message.rs), of the message contents  *)
(* it is made of (pact_matching/src/models/v4/message_parts.rs) and of the *)
(* consumer DSL's ResponseBuilder                                          *)
(* (pact_consumer/src/builders/response_builder.rs).                       *)
(*                                                                         *)
(* Representation.                                                         *)
(*  - Option<T>: the empty sequence is None, <<v>> is Some(v).             *)
(*  - HashMap<String, Value>: a sequence of <<key, value>> pairs with      *)
(*    distinct keys, in the order the map iterates. Rust leaves that order *)
(*    unspecified: every HashMap gets its own RandomState, so two maps     *)
(*    holding the same entries iterate in any two orders. A clone copies   *)
(*    the table and the hasher and iterates like its original.             *)
(*  - serde_json::Value: a pair <<tag, payload>>; an object is a function  *)
(*    from its keys (serde_json's Map is ordered by key, so it has no      *)
(*    order of its own).                                                   *)
(*  - A Hasher: the string of everything written to it. DefaultHasher is   *)
(*    taken to be collision free, so the digest, and its "{:x}" rendering, *)
(*    is identified with that string.                                      *)
(*  - An anyhow error: the sequence of the fragments its message is        *)
(*    formatted from.                                                      *)
(***************************************************************************)
EXTENDS Integers, Sequences, FiniteSets, TLC

VARIABLES
  x,        \* the SynchronousMessages value at hand
  prev,     \* the value the last operation was applied to
  op,       \* the last operation
  json,     \* the JSON document in flight (None: <<>>)
  res,      \* the last result of from_json (None: <<>>)
  out,      \* the last result of contents_for_verification (None: <<>>)
  edits,    \* number of field assignments / document edits made so far
  heap,     \* the Response objects alive, by address; 0 is ResponseBuilder.response
  built,    \* what build() returned: the Response's address and the status due
  lastSet   \* the status set by the most recent status call (200 when none)

vars == <<x, prev, op, json, res, out, edits, heap, built, lastSet>>

\* ------------------------------------------------------------------ bounds

\* Field assignments made on one value.
MaxEdits == 2
\* Edits made to one JSON document before it is decoded.
MaxJsonEdits == 2
\* Responses kept from ResponseBuilder::build.
MaxBuilds == 2

\* ------------------------------------------------------------ Option, maps

None == <<>>
Some(v) == <<v>>

Range(s) == {s[i] : i \in DOMAIN s}

\* The keys of a HashMap, in iteration order.
Keys(m) == [i \in DOMAIN m |-> m[i][1]]

\* HashMap == HashMap: the same entries, whatever the iteration order.
MapEq(m1, m2) == Range(m1) = Range(m2)

\* Every order a freshly collected HashMap with the entries `entries` may
\* iterate in.
Orders(entries) ==
  {s \in [1..Cardinality(entries) -> entries] : Range(s) = entries}

\* HashMap::insert: an existing key keeps its slot and takes the new value; a
\* new key lands in a slot the hasher picks.
Inserted(m, k, v) ==
  IF \E i \in DOMAIN m : m[i][1] = k
    THEN {[i \in DOMAIN m |-> IF m[i][1] = k THEN <<k, v>> ELSE m[i]]}
    ELSE {SubSeq(m, 1, p) \o <<(<<k, v>>)>> \o SubSeq(m, p + 1, Len(m)) :
            p \in 0..Len(m)}

\* Concatenation of a sequence of strings.
RECURSIVE Concat(_)
Concat(ss) == IF ss = <<>> THEN "" ELSE Head(ss) \o Concat(Tail(ss))

\* -------------------------------------------------------------------- JSON

JNull == <<"null", "">>
JBool(b) == <<"bool", b>>
JNum(n) == <<"number", n>>
JStr(s) == <<"string", s>>
JArr(a) == <<"array", a>>
JObj(f) == <<"object", f>>

is_object(v) == v[1] = "object"
is_array(v) == v[1] = "array"
is_string(v) == v[1] = "string"

\* Value::get: Some(field) of an object that has it, None otherwise.
get(v, k) ==
  IF is_object(v) /\ k \in DOMAIN v[2] THEN Some(v[2][k]) ELSE None

\* Map::insert on a JSON object.
insert(v, k, w) ==
  JObj([f \in (DOMAIN v[2]) \cup {k} |-> IF f = k THEN w ELSE v[2][f]])

\* Map::remove on a JSON object.
remove(v, k) == JObj([f \in (DOMAIN v[2]) \ {k} |-> v[2][f]])

\* collect() of (key, value) pairs into a JSON object.
Collected(m) ==
  JObj([k \in Range(Keys(m)) |-> (CHOOSE e \in Range(m) : e[1] = k)[2]])

\* Display of a Value (compact JSON text); object members are not rendered.
RECURSIVE Render(_)
Render(v) ==
  CASE v[1] = "null" -> "null"
    [] v[1] = "bool" -> IF v[2] THEN "true" ELSE "false"
    [] v[1] = "number" -> ToString(v[2])
    [] v[1] = "string" -> "\"" \o v[2] \o "\""
    [] v[1] = "array" ->
         "[" \o Concat([i \in DOMAIN v[2] |->
                  (IF i > 1 THEN "," ELSE "") \o Render(v[2][i])]) \o "]"
    [] OTHER -> "{..}"

\* json_utils::json_to_string: a string as it is, anything else as its text.
json_to_string(v) == IF is_string(v) THEN v[2] ELSE Render(v)


\* ------------------------------------------------------- hashing primitives

\* impl Hash for str: the bytes, then the byte 0xff (here "|"), which no
\* UTF-8 string contains.
str_hash(s) == s \o "|"

\* impl Hash for bool: one byte.
bool_hash(b) == IF b THEN "1" ELSE "0"

\* impl Hash for Vec<T>: the length (a fixed-width usize), then the elements.
vec_hash(hs) == "#" \o ToString(Len(hs)) \o "#" \o Concat(hs)

\* json_utils::hash_json, a structural hash of the JSON value.
hash_json(v) == "J" \o Render(v) \o "|"

\* ------------------------------------------------------------ OptionalBody

Missing == <<"Missing", "">>
Null == <<"Null", "">>
Present(b) == <<"Present", b>>

\* impl Default for OptionalBody.
OptionalBody_default == Missing

\* #[derive(Hash)] on OptionalBody: the variant, then what it carries.
OptionalBody_hash(b) ==
  "<" \o b[1] \o ">" \o (IF b[1] = "Present" THEN str_hash(b[2]) ELSE "")

\* OptionalBody::to_v4_json: the body envelope of a present body, null for an
\* absent one.
to_v4_json(b) ==
  IF b[1] = "Present" THEN JObj([k \in {"content"} |-> JStr(b[2])]) ELSE JNull

\* http_parts::body_from_json: the body under `attr`.
body_from_json(v, attr) ==
  LET f == get(v, attr) IN
  IF f = None THEN Missing
  ELSE IF f[1] = JNull THEN Null
  ELSE IF is_object(f[1]) /\ get(f[1], "content") # None
         /\ is_string(get(f[1], "content")[1])
    THEN Present(get(f[1], "content")[1][2])
  ELSE Missing

\* ------------------------------------------- matching rules and generators
\* Both are opaque here: the name of a rule set, "" for the empty one.

is_empty(r) == r = ""

MatchingRules_hash(r) == IF is_empty(r) THEN "" ELSE "<rules>" \o str_hash(r)

Generators_hash(g) == IF is_empty(g) THEN "" ELSE "<generators>" \o str_hash(g)

matchers_to_json(r) == JStr(r)

generators_to_json(g) == JStr(g)

matchers_from_json(v) ==
  LET f == get(v, "matchingRules") IN
  IF f # None /\ is_string(f[1]) THEN f[1][2] ELSE ""

generators_from_json(v) ==
  LET f == get(v, "generators") IN
  IF f # None /\ is_string(f[1]) THEN f[1][2] ELSE ""

\* --------------------------------------------------------- MessageContents

\* #[derive(Default)] on MessageContents.
MessageContents_default ==
  [contents |-> OptionalBody_default, metadata |-> <<>>,
   matching_rules |-> "", generators |-> ""]

\* impl Hash for MessageContents, with the metadata walked in the order
\* `order` (a sequence of <<key, value>> pairs).
MessageContents_hash_in(self, order) ==
  OptionalBody_hash(self.contents)
    \o Concat([i \in DOMAIN order |->
                 str_hash(order[i][1]) \o hash_json(order[i][2])])
    \o MatchingRules_hash(self.matching_rules)
    \o Generators_hash(self.generators)

\* The hash of MessageContents, were the metadata left out of it.
MessageContents_hash_no_metadata(self) == MessageContents_hash_in(self, <<>>)

\* impl Hash for MessageContents: `for (k, v) in &self.metadata` walks the
\* map in its own iteration order.
MessageContents_hash(self) == MessageContents_hash_in(self, self.metadata)

\* impl PartialEq for MessageContents.
MessageContents_eq(self, other) ==
  /\ self.contents = other.contents
  /\ MapEq(self.metadata, other.metadata)
  /\ self.matching_rules = other.matching_rules
  /\ self.generators = other.generators

Ok(v) == <<"Ok", v>>
Err(e) == <<"Err", e>>
is_ok(r) == r[1] = "Ok"
is_err(r) == r[1] = "Err"

\* MessageContents::from_json, were anything but an object read as empty
\* contents.
MessageContents_from_json_lenient(v) ==
  {Ok([contents |-> body_from_json(v, "contents"),
       metadata |-> <<>>,
       matching_rules |-> matchers_from_json(v),
       generators |-> generators_from_json(v)])}

\* MessageContents::from_json: every result it may give, one for each order
\* the collected metadata map may iterate in.
MessageContents_from_json(v) ==
  IF is_object(v)
    THEN LET m == get(v, "metadata")
             entries == IF m # None /\ is_object(m[1])
                          THEN {<<k, m[1][2][k]>> : k \in DOMAIN m[1][2]}
                          ELSE {}
         IN {Ok([contents |-> body_from_json(v, "contents"),
                 metadata |-> md,
                 matching_rules |-> matchers_from_json(v),
                 generators |-> generators_from_json(v)]) :
               md \in Orders(entries)}
    ELSE {Err(<<"Expected a JSON object for the message contents, got '"
                  \o Render(v) \o "'">>)}

\* MessageContents::to_json.
MessageContents_to_json(self) ==
  LET j0 == JObj(<<>>)
      j1 == IF is_object(to_v4_json(self.contents))
              THEN insert(j0, "contents", to_v4_json(self.contents)) ELSE j0
      j2 == IF self.metadata # <<>>
              THEN insert(j1, "metadata", Collected(self.metadata)) ELSE j1
      j3 == IF ~is_empty(self.matching_rules)
              THEN insert(j2, "matchingRules",
                          matchers_to_json(self.matching_rules))
              ELSE j2
      j4 == IF ~is_empty(self.generators)
              THEN insert(j3, "generators", generators_to_json(self.generators))
              ELSE j3
  IN j4

\* ----------------------------------------------------------- ProviderState
\* [name, params]; params is a function from its keys to JSON values.

\* Keys in ascending order.
KeyOrder == <<"p1", "p2">>

\* impl Hash for ProviderState: the name, then the params by ascending key.
ProviderState_hash(ps) ==
  LET ks == SelectSeq(KeyOrder, LAMBDA k : k \in DOMAIN ps.params) IN
  str_hash(ps.name)
    \o Concat([i \in DOMAIN ks |-> str_hash(ks[i]) \o hash_json(ps.params[ks[i]])])

\* ProviderState::to_json.
ProviderState_to_json(ps) ==
  LET j0 == JObj([k \in {"name"} |-> JStr(ps.name)]) IN
  IF DOMAIN ps.params # {} THEN insert(j0, "params", JObj(ps.params)) ELSE j0

\* ProviderState::from_json: the states under "providerStates".
ProviderState_from_json(v) ==
  LET f == get(v, "providerStates") IN
  IF f # None /\ is_array(f[1])
    THEN [i \in DOMAIN f[1][2] |->
            LET e == f[1][2][i] IN
            [name |-> IF get(e, "name") # None
                        THEN json_to_string(get(e, "name")[1]) ELSE "",
             params |-> IF get(e, "params") # None /\ is_object(get(e, "params")[1])
                          THEN get(e, "params")[1][2] ELSE <<>>]]
    ELSE <<>>


\* ----------------------------------------------------- SynchronousMessages

\* impl Default for SynchronousMessages.
SynchronousMessages_default ==
  [id |-> None, key |-> None,
   description |-> "Synchronous/Message Interaction",
   provider_states |-> <<>>, comments |-> <<>>,
   request |-> MessageContents_default, response |-> <<>>,
   pending |-> FALSE]

\* impl Hash for SynchronousMessages.
Hash(self) ==
  str_hash(self.description)
    \o vec_hash([i \in DOMAIN self.provider_states |->
                   ProviderState_hash(self.provider_states[i])])
    \o MessageContents_hash(self.request)
    \o vec_hash([i \in DOMAIN self.response |->
                   MessageContents_hash(self.response[i])])
    \o bool_hash(self.pending)

\* impl PartialEq for SynchronousMessages.
eq(self, other) ==
  /\ self.description = other.description
  /\ self.provider_states = other.provider_states
  /\ MessageContents_eq(self.request, other.request)
  /\ Len(self.response) = Len(other.response)
  /\ \A i \in DOMAIN self.response :
       MessageContents_eq(self.response[i], other.response[i])
  /\ self.pending = other.pending

\* calc_hash, were the existing key hashed with the identity fields.
calc_hash_keyed(self) ==
  Hash(self) \o (IF self.key = None THEN "" ELSE str_hash(self.key[1]))

\* SynchronousMessages::calc_hash.
calc_hash(self) == Hash(self)

\* with_key, were a key that is already there kept.
with_key_keep(self) ==
  IF self.key # None THEN self ELSE [self EXCEPT !.key = Some(Hash(self))]

\* SynchronousMessages::with_key.
with_key(self) == [self EXCEPT !.key = Some(calc_hash(self))]

\* V4Interaction::to_json for SynchronousMessages.
to_json(self) ==
  LET j0 == JObj([k \in {"type", "key", "description", "pending", "request",
                         "response"} |->
                CASE k = "type" -> JStr("Synchronous/Messages")
                  [] k = "key" -> JStr(IF self.key # None THEN self.key[1]
                                       ELSE calc_hash(self))
                  [] k = "description" -> JStr(self.description)
                  [] k = "pending" -> JBool(self.pending)
                  [] k = "request" -> MessageContents_to_json(self.request)
                  [] OTHER -> JArr([i \in DOMAIN self.response |->
                                MessageContents_to_json(self.response[i])])])
      j1 == IF self.provider_states # <<>>
              THEN insert(j0, "providerStates",
                          JArr([i \in DOMAIN self.provider_states |->
                                  ProviderState_to_json(self.provider_states[i])]))
              ELSE j0
      j2 == IF self.comments # <<>>
              THEN insert(j1, "comments", Collected(self.comments)) ELSE j1
  IN j2

\* ", "-join of messages, as fragments.
RECURSIVE join(_)
join(ms) ==
  IF Len(ms) <= 1 THEN ms ELSE <<Head(ms), ", ">> \o join(Tail(ms))

\* The error for failed elements, were only the first failure reported.
aggregate_error_first(responses) ==
  LET failed == SelectSeq(responses, is_err) IN
  Err(<<"Failed to parse SynchronousMessages responses - ",
        Concat(failed[1][2])>>)

\* from_json, lines 98-102: the failures of all the elements, in array order,
\* in one error.
aggregate_error(responses) ==
  LET failed == SelectSeq(responses, is_err)
      errors == join([i \in DOMAIN failed |-> Concat(failed[i][2])])
  IN Err(<<"Failed to parse SynchronousMessages responses - ">> \o errors)

\* The 'pending' flag, were it not read from the document.
pending_of_false(v) == FALSE

\* from_json, lines 112-113: the 'pending' flag, false unless a JSON true.
pending_of(v) ==
  LET p == get(v, "pending") IN
  IF p # None /\ p[1][1] = "bool" THEN p[1][2] ELSE FALSE

\* The results of decoding every element of a 'response' array: one sequence
\* of results for each way the elements' metadata maps may iterate.
ResponsesOf(response) ==
  {rs \in [DOMAIN response ->
             UNION {MessageContents_from_json(response[i]) : i \in DOMAIN response}] :
     \A i \in DOMAIN response : rs[i] \in MessageContents_from_json(response[i])}

\* SynchronousMessages::from_json: every result it may give.
from_json(v, index) ==
  IF is_object(v)
    THEN
      LET id == IF get(v, "_id") # None
                  THEN Some(json_to_string(get(v, "_id")[1])) ELSE None
          key == IF get(v, "key") # None
                   THEN Some(json_to_string(get(v, "key")[1])) ELSE None
          d == get(v, "description")
          description == IF d = None THEN "Interaction " \o ToString(index)
                         ELSE IF is_string(d[1]) THEN d[1][2]
                         ELSE Render(d[1])
          c == get(v, "comments")
          comments == IF c # None /\ is_object(c[1])
                        THEN {<<k, c[1][2][k]>> : k \in DOMAIN c[1][2]}
                        ELSE {}
          provider_states == ProviderState_from_json(v)
          request == get(v, "request")
          response == get(v, "response")
      IN
      IF request = None
        THEN {Err(<<"JSON for SynchronousMessages does not contain a 'request' object">>)}
      ELSE IF response = None \/ ~is_array(response[1])
        THEN {Err(<<"JSON for SynchronousMessages does not contain a 'response' array">>)}
      ELSE UNION {
        IF \E i \in DOMAIN responses : is_err(responses[i])
          THEN {aggregate_error(responses)}
          ELSE {IF is_err(rq) THEN rq
                ELSE Ok([id |-> id, key |-> key, description |-> description,
                         provider_states |-> provider_states,
                         comments |-> cm,
                         request |-> rq[2],
                         response |-> [i \in DOMAIN responses |-> responses[i][2]],
                         pending |-> pending_of(v)]) :
                  rq \in MessageContents_from_json(request[1]),
                  cm \in Orders(comments)} :
        responses \in ResponsesOf(response[1][2])}
    ELSE {Err(<<"Expected a JSON object for the interaction, got '"
                  \o Render(v) \o "'">>)}

\* contents_for_verification, were the last response taken.
contents_for_verification_last(self) ==
  IF self.response # <<>> THEN self.response[Len(self.response)].contents
  ELSE OptionalBody_default

\* Interaction::contents_for_verification for SynchronousMessages.
contents_for_verification(self) ==
  IF self.response # <<>> THEN Head(self.response).contents
  ELSE OptionalBody_default


\* ---------------------------------------------------------- ResponseBuilder

\* Response::default(), as far as the builder's status methods go.
Response_default == [status |-> 200, body |-> Missing]

\* ResponseBuilder::status on the builder's own Response (address 0).
status(h, n) == [h EXCEPT ![0].status = n]

\* ResponseBuilder::ok .. not_found.
ok(h) == status(h, 200)
created(h) == status(h, 201)
no_content(h) == status(h, 204)
unauthorized(h) == status(h, 401)
forbidden(h) == status(h, 403)
not_found(h) == status(h, 404)

\* build, were the builder's own Response handed out instead of a clone.
build_alias(h) == <<h, 0>>

\* ResponseBuilder::build: self.response.clone(), a new Response object; the
\* result is <<the heap after the call, the address returned>>.
build(h) ==
  LET a == Cardinality(DOMAIN h) IN
  <<[b \in (DOMAIN h) \cup {a} |-> IF b = a THEN h[0] ELSE h[b]], a>>

\* ------------------------------------------------------------ input domains

Descriptions == {"Synchronous/Message Interaction", "d1"}
Bodies == {Null, Present("b1")}
MetadataKeys == {"k1", "k2"}
MetadataValues == {JStr("v1"), JNum(2)}
ProviderStates ==
  {[name |-> "s1", params |-> <<>>],
   [name |-> "s1", params |-> [k \in {"p1"} |-> JNum(1)]],
   [name |-> "s1", params |-> [k \in {"p1"} |-> JNum(2)]],
   [name |-> "s2", params |-> <<>>]}
\* u16 status codes handed to status(): the named ones and some others.
StatusCodes == {0, 200, 201, 204, 401, 403, 404, 500, 65535}

\* The message parts of a value: 0 is the request, i > 0 the i-th response.
Parts(self) == 0..Len(self.response)
Part(self, i) == IF i = 0 THEN self.request ELSE self.response[i]
WithPart(self, i, mc) ==
  IF i = 0 THEN [self EXCEPT !.request = mc]
  ELSE [self EXCEPT !.response[i] = mc]

\* ------------------------------------------------------------------ actions

NoBuilder == /\ UNCHANGED <<heap, built, lastSet>>

\* An assignment to a pub field of the value at hand.
Edit(name, new) ==
  /\ edits < MaxEdits
  /\ new # x
  /\ x' = new
  /\ prev' = x
  /\ op' = name
  /\ edits' = edits + 1
  /\ json' = None /\ res' = None /\ out' = None
  /\ NoBuilder

SetId == Edit("set_id", [x EXCEPT !.id = Some("id1")])

SetKey == Edit("set_key", [x EXCEPT !.key = Some("k1")])

SetDescription == \E d \in Descriptions : Edit("set_description", [x EXCEPT !.description = d])

SetPending == Edit("set_pending", [x EXCEPT !.pending = ~x.pending])

\* V4Interaction::comments_mut, then an insert through the reference.
CommentsMut ==
  \E m \in Inserted(x.comments, "text", JStr("c1")) :
    Edit("comments_mut", [x EXCEPT !.comments = m])

PushProviderState ==
  \E ps \in ProviderStates :
    Edit("push_provider_state",
         [x EXCEPT !.provider_states = Append(x.provider_states, ps)])

SetContents ==
  \E i \in Parts(x), b \in Bodies :
    Edit("set_contents", WithPart(x, i, [Part(x, i) EXCEPT !.contents = b]))

InsertMetadata ==
  \E i \in Parts(x), k \in MetadataKeys, v \in MetadataValues :
    \E m \in Inserted(Part(x, i).metadata, k, v) :
      Edit("insert_metadata", WithPart(x, i, [Part(x, i) EXCEPT !.metadata = m]))

SetRules ==
  \/ Edit("set_rules", [x EXCEPT !.request.matching_rules = "r1"])
  \/ Edit("set_rules", [x EXCEPT !.request.generators = "g1"])

PushResponse ==
  \E b \in Bodies \cup {Missing} :
    Edit("push_response",
         [x EXCEPT !.response =
            Append(x.response, [MessageContents_default EXCEPT !.contents = b])])

WithKey ==
  /\ x' = with_key(x)
  /\ prev' = x
  /\ op' = "with_key"
  /\ json' = None /\ res' = None /\ out' = None
  /\ UNCHANGED edits
  /\ NoBuilder

ToJson ==
  /\ json' = Some(to_json(x))
  /\ op' = "to_json"
  /\ res' = None /\ out' = None
  /\ UNCHANGED <<x, prev, edits>>
  /\ NoBuilder

FromJson ==
  /\ json # None
  /\ \E r \in from_json(json[1], 0) : res' = Some(r)
  /\ op' = "from_json"
  /\ out' = None
  /\ UNCHANGED <<x, prev, json, edits>>
  /\ NoBuilder

\* The decoded interaction becomes the value at hand.
Load ==
  /\ res # None /\ is_ok(res[1])
  /\ x' = res[1][2]
  /\ prev' = x
  /\ op' = "load"
  /\ json' = None /\ res' = None /\ out' = None
  /\ UNCHANGED edits
  /\ NoBuilder

ContentsForVerification ==
  /\ out' = Some(contents_for_verification(x))
  /\ op' = "contents_for_verification"
  /\ json' = None /\ res' = None
  /\ UNCHANGED <<x, prev, edits>>
  /\ NoBuilder

InitBuilder ==
  /\ heap = [a \in {0} |-> Response_default]
  /\ built = <<>>
  /\ lastSet = 200

Init ==
  /\ x = SynchronousMessages_default
  /\ prev = SynchronousMessages_default
  /\ op = "default"
  /\ json = None /\ res = None /\ out = None
  /\ edits = 0
  /\ InitBuilder

Next ==
  \/ SetId
  \/ SetKey
  \/ SetDescription
  \/ SetPending
  \/ CommentsMut
  \/ PushProviderState
  \/ SetContents
  \/ InsertMetadata
  \/ SetRules
  \/ PushResponse
  \/ WithKey
  \/ ToJson
  \/ FromJson
  \/ Load
  \/ ContentsForVerification

Spec == Init /\ [][Next]_vars


\* ------------------------------------------------- decoding edited documents
\* Contract files are written by other tools too: the documents from_json is
\* given are the encodings of a few interactions, edited.

Sample(bodies) ==
  [SynchronousMessages_default EXCEPT
     !.response = [i \in DOMAIN bodies |->
                     [MessageContents_default EXCEPT !.contents = bodies[i]]]]

SampleParams ==
  [SynchronousMessages_default EXCEPT
     !.provider_states = <<[name |-> "s1", params |-> [k \in {"p1"} |-> JNum(1)]]>>]

SampleMetadata ==
  [SynchronousMessages_default EXCEPT
     !.key = Some("k1"),
     !.request.metadata = <<(<<"k1", JStr("v1")>>), (<<"k2", JNum(2)>>)>>,
     !.response = <<[MessageContents_default EXCEPT
                       !.metadata = <<(<<"k1", JStr("v1")>>)>>]>>]

SampleValues ==
  {Sample(<<>>), Sample(<<Present("b1")>>), Sample(<<Present("b1"), Null>>),
   SampleParams, SampleMetadata}

\* Values put where an object or an array is expected.
BadValues == {JNull, JStr("x")}
FieldValues == BadValues \cup {JObj(<<>>), JArr(<<>>)}

JsonEdit(name, new) ==
  /\ edits < MaxJsonEdits
  /\ json # None
  /\ new # json[1]
  /\ json' = Some(new)
  /\ op' = name
  /\ res' = None
  /\ edits' = edits + 1
  /\ UNCHANGED <<x, prev, out>>
  /\ NoBuilder

RemoveField ==
  \E f \in {"request", "response"} :
    /\ json # None /\ is_object(json[1])
    /\ JsonEdit("remove_field", remove(json[1], f))

SetField ==
  \E f \in {"request", "response"}, v \in FieldValues :
    /\ json # None /\ is_object(json[1])
    /\ JsonEdit("set_field", insert(json[1], f, v))

SetResponseElement ==
  /\ json # None /\ get(json[1], "response") # None
  /\ is_array(get(json[1], "response")[1])
  /\ LET a == get(json[1], "response")[1][2] IN
     \E i \in DOMAIN a, v \in BadValues :
       JsonEdit("set_response_element",
                insert(json[1], "response", JArr([a EXCEPT ![i] = v])))

AppendResponseElement ==
  /\ json # None /\ get(json[1], "response") # None
  /\ is_array(get(json[1], "response")[1])
  /\ LET a == get(json[1], "response")[1][2] IN
     \E v \in BadValues \cup {JObj(<<>>)} :
       JsonEdit("append_response_element",
                insert(json[1], "response", JArr(Append(a, v))))

ReplaceDocument ==
  \E v \in BadValues : json # None /\ JsonEdit("replace_document", v)

InitDecode ==
  /\ x \in SampleValues
  /\ prev = x
  /\ json = Some(to_json(x))
  /\ op = "to_json"
  /\ res = None /\ out = None
  /\ edits = 0
  /\ InitBuilder

NextDecode ==
  \/ RemoveField
  \/ SetField
  \/ SetResponseElement
  \/ AppendResponseElement
  \/ ReplaceDocument
  \/ FromJson

SpecDecode == InitDecode /\ [][NextDecode]_vars

\* ----------------------------------------------- ResponseBuilder in use

NoInteraction == UNCHANGED <<x, prev, op, json, res, out, edits>>

\* A status method was called: `h` is the heap it leaves, `code` the status
\* its documentation names.
Called(h, code) ==
  /\ heap' = h
  /\ lastSet' = code
  /\ UNCHANGED built
  /\ NoInteraction

CallStatus == \E n \in StatusCodes : Called(status(heap, n), n)
CallOk == Called(ok(heap), 200)
CallCreated == Called(created(heap), 201)
CallNoContent == Called(no_content(heap), 204)
CallUnauthorized == Called(unauthorized(heap), 401)
CallForbidden == Called(forbidden(heap), 403)
CallNotFound == Called(not_found(heap), 404)

CallBuild ==
  /\ Len(built) < MaxBuilds
  /\ LET r == build(heap) IN
       /\ heap' = r[1]
       /\ built' = Append(built, [addr |-> r[2], expected |-> lastSet])
  /\ UNCHANGED lastSet
  /\ NoInteraction

NextBuilder ==
  \/ CallStatus
  \/ CallOk
  \/ CallCreated
  \/ CallNoContent
  \/ CallUnauthorized
  \/ CallForbidden
  \/ CallNotFound
  \/ CallBuild

SpecBuilder == Init /\ [][NextBuilder]_vars


\* =================================================================== claims

\* The interaction decoded by the last from_json.
Decoded == res[1][2]

\* The last operation encoded x and decoded the document as it was written.
RoundTripped == op = "from_json" /\ json = Some(to_json(x))

\* C1: deriving the key twice gives the same key as deriving it once:
\* with_key(with_key(x)).key = with_key(x).key, for every value x.
C1_KeyIdempotent == with_key(with_key(x)).key = with_key(x).key

\* with_key has been applied twice in a row to a value that carried a key of
\* its own and has two metadata entries.
C1_Witness ==
  /\ op = "with_key"
  /\ prev.key # None /\ prev.key # Some("k1")
  /\ x.key = prev.key
  /\ x.id # None
  /\ Len(x.request.metadata) + Len(x.comments) >= 1

\* C2 as stated: with_key keeps a key that is already there.
C2_ExistingKeyPreserved ==
  (op = "with_key" /\ prev.key # None) => x.key = prev.key

\* C2, amended: with_key always sets the key to the hash of the identity
\* fields, replacing a key that is already there, and changes nothing else.
C2_KeyRecomputed ==
  op = "with_key" =>
    /\ x.key = Some(calc_hash(x))
    /\ [x EXCEPT !.key = prev.key] = prev

\* with_key was applied to a value carrying the key "k1", which it replaced.
C2_Witness ==
  /\ op = "with_key"
  /\ prev.key = Some("k1")
  /\ x.key # prev.key

\* C3: two values that agree on description, provider_states, request,
\* response and pending, and differ in id, key or comments, get the same key
\* from with_key.
C3_KeyIgnoresIdKeyComments ==
  (/\ eq(x, prev)
   /\ \/ x.id # prev.id
      \/ x.key # prev.key
      \/ ~MapEq(x.comments, prev.comments))
    => with_key(x).key = with_key(prev).key

\* C4: two values holding the same metadata entries get the same key from
\* with_key, whatever order their metadata maps iterate in; here the value
\* and its own encoding decoded again.
C4_KeyIgnoresMapOrder ==
  (op = "from_json" /\ is_ok(res[1]) /\ eq(Decoded, x))
    => with_key(Decoded).key = with_key(x).key

Restored(mc) ==
  [mc EXCEPT !.contents = IF mc.contents = Null THEN Missing ELSE mc.contents]

\* C6 as stated: from_json(to_json(x)) succeeds and reproduces every field of
\* x.
C6_RoundTripExact ==
  RoundTripped =>
    /\ is_ok(res[1])
    /\ Decoded.id = x.id
    /\ Decoded.key = x.key
    /\ Decoded.description = x.description
    /\ Decoded.provider_states = x.provider_states
    /\ MapEq(Decoded.comments, x.comments)
    /\ eq(Decoded, x)

\* C6, amended: from_json(to_json(x)) succeeds and reproduces description,
\* provider_states, comments, request, response and pending (a Null body
\* comes back Missing); the id comes back None, and the key comes back as the
\* key of x, or as the hash of x where x has none.
C6_RoundTrip ==
  RoundTripped =>
    /\ is_ok(res[1])
    /\ Decoded.id = None
    /\ Decoded.key = Some(IF x.key # None THEN x.key[1] ELSE calc_hash(x))
    /\ Decoded.description = x.description
    /\ Decoded.provider_states = x.provider_states
    /\ MapEq(Decoded.comments, x.comments)
    /\ MessageContents_eq(Decoded.request, Restored(x.request))
    /\ Len(Decoded.response) = Len(x.response)
    /\ \A i \in DOMAIN x.response :
         MessageContents_eq(Decoded.response[i], Restored(x.response[i]))
    /\ Decoded.pending = x.pending

\* A pending value with metadata and neither comments nor provider states was
\* encoded and decoded.
C6_Witness ==
  /\ RoundTripped
  /\ x.pending
  /\ x.request.metadata # <<>>
  /\ x.comments = <<>> /\ x.provider_states = <<>>
  /\ is_ok(res[1])
  /\ Decoded.comments = <<>> /\ Decoded.provider_states = <<>>


\* The elements of a 'response' array that do not decode, in array order.
Failing(a) ==
  SelectSeq(a, LAMBDA e : \A r \in MessageContents_from_json(e) : is_err(r))

\* The failure message of each failing element, in array order.
FailureMessages(a) ==
  [i \in DOMAIN Failing(a) |->
     Concat((CHOOSE r \in MessageContents_from_json(Failing(a)[i]) : TRUE)[2])]

\* `ms` occurs in `fs`, in order.
RECURSIVE OccursInOrder(_, _)
OccursInOrder(ms, fs) ==
  IF ms = <<>> THEN TRUE
  ELSE IF fs = <<>> THEN FALSE
  ELSE IF Head(ms) = Head(fs) THEN OccursInOrder(Tail(ms), Tail(fs))
  ELSE OccursInOrder(ms, Tail(fs))

\* The document decoded last is an object whose 'response' is an array with
\* at least one element that does not decode.
HasFailingResponses ==
  /\ op = "from_json"
  /\ is_object(json[1])
  /\ get(json[1], "response") # None
  /\ is_array(get(json[1], "response")[1])
  /\ Failing(get(json[1], "response")[1][2]) # <<>>

\* The last result is one error whose message holds the failure message of
\* every failing element, in array order.
AggregateError ==
  /\ is_err(res[1])
  /\ OccursInOrder(FailureMessages(get(json[1], "response")[1][2]), res[1][2])

\* C7 as stated: a 'response' array with failing elements gives one error
\* holding every element's failure message, whatever the 'request' field is,
\* absent included.
C7_AggregateWhateverRequest == HasFailingResponses => AggregateError

\* C7, amended: a 'response' array with failing elements gives one error
\* holding every element's failure message, in array order, whenever the
\* document has a 'request' field, whatever its value; without one the error
\* is the missing 'request' one.
C7_AggregateDecode ==
  HasFailingResponses =>
    IF get(json[1], "request") # None THEN AggregateError
    ELSE res[1] = Err(<<"JSON for SynchronousMessages does not contain a 'request' object">>)

\* A document with a 'request', an element that decodes and two elements
\* failing with different messages was decoded.
C7_Witness ==
  /\ HasFailingResponses
  /\ Cardinality(Range(FailureMessages(get(json[1], "response")[1][2]))) >= 2
  /\ Len(get(json[1], "response")[1][2])
       > Len(Failing(get(json[1], "response")[1][2]))
  /\ get(json[1], "request") # None
  /\ AggregateError

\* Input, 'request' and 'response' have the required structure and every
\* response element is an object.
WellFormed(v) ==
  /\ is_object(v)
  /\ get(v, "request") # None /\ is_object(get(v, "request")[1])
  /\ get(v, "response") # None /\ is_array(get(v, "response")[1])
  /\ \A i \in DOMAIN get(v, "response")[1][2] :
       is_object(get(v, "response")[1][2][i])

\* C8: from_json returns an error, and no interaction, when the input is no
\* object, 'request' is absent or no object, or 'response' is absent or no
\* array; it returns an interaction exactly when all are well formed and
\* every response element decodes.
C8_RequiredStructure ==
  op = "from_json" =>
    /\ is_ok(res[1]) <=> WellFormed(json[1])
    /\ is_err(res[1]) <=> ~WellFormed(json[1])

\* A document whose 'request' is there but is no object, with a well-formed
\* 'response' array of at least one element, was decoded.
C8_Witness ==
  /\ op = "from_json"
  /\ is_object(json[1])
  /\ get(json[1], "request") # None /\ ~is_object(get(json[1], "request")[1])
  /\ get(json[1], "response") # None /\ is_array(get(json[1], "response")[1])
  /\ Failing(get(json[1], "response")[1][2]) = <<>>
  /\ get(json[1], "response")[1][2] # <<>>
  /\ is_err(res[1])

\* C9: contents_for_verification returns the body of the first response,
\* whatever follows it and whatever the request body is, and the Missing body
\* when there is no response.
C9_FirstResponse ==
  op = "contents_for_verification" =>
    out = Some(IF Len(x.response) = 0 THEN Missing ELSE x.response[1].contents)

\* It was called on a value with two responses of different bodies, both
\* different from the request's.
C9_Witness ==
  /\ op = "contents_for_verification"
  /\ Len(x.response) = 2
  /\ x.response[1].contents # x.response[2].contents
  /\ x.response[1].contents # x.request.contents
  /\ x.response[1].contents # Missing

\* C10: the builder's status is the one set by the most recent call, 200 when
\* there was none, and every Response build() returned still has the status
\* that was set when it was built.
C10_StatusLastWriteWins ==
  /\ heap[0].status = lastSet
  /\ \A i \in DOMAIN built : heap[built[i].addr].status = built[i].expected

\* Two Responses were built with different statuses, the first with the
\* default, and the status was set again afterwards.
C10_Witness ==
  /\ Len(built) = 2
  /\ built[1].expected = 200
  /\ built[2].expected = 404
  /\ lastSet = 201

=============================================================================
